---------------------------- MODULE Spec2Model ----------------------------
(***************************************************************************)
(* A model of job-parser: text normalisation (utils/cleaning.py), header   *)
(* detection, canonical-field matching and section grouping                *)
(* (utils/header_detection.py) and the record assembly of parse_job        *)
(* (parser.py).                                                            *)
(*                                                                         *)
(* A text is a sequence of characters; a character is a string naming one  *)
(* code point: a printable ASCII character stands for itself, "\n" "\t"    *)
(* "\r" are the control characters, and any other code point is written    *)
(* "U+XXXX".  The functions are pure; every specification draws an input   *)
(* in Init and applies the functions in the order the code calls them.     *)
(***************************************************************************)
EXTENDS Integers, Sequences, FiniteSets

VARIABLES pc, raw, cleaned, recleaned, lines, headers, sections, si,
          job_title, company, salary, merged, line, verdict, title, field

vars == <<pc, raw, cleaned, recleaned, lines, headers, sections, si,
          job_title, company, salary, merged, line, verdict, title, field>>

---------------------------------------------------------------------------
(* Characters *)

NL == "\n"
CR == "\r"
TAB == "\t"
SP == " "
QUOTE == "\""
\* cleaning.py:14 FULL_WIDTH_SPACE and cleaning.py:15 NON_BREAKING_SPACE
FULL_WIDTH_SPACE == "U+3000"
NON_BREAKING_SPACE == "U+00A0"

\* The characters str.strip()/str.rstrip() remove and the regex class \s
\* matches, among the characters the inputs are built from.
Whitespace == {SP, TAB, NL, CR, FULL_WIDTH_SPACE, NON_BREAKING_SPACE}

Digits == {"0", "1", "2", "3", "4", "5", "6", "7", "8", "9"}

---------------------------------------------------------------------------
(* Python string operations *)

RECURSIVE lstrip(_)
lstrip(s) == IF s = <<>> \/ Head(s) \notin Whitespace THEN s ELSE lstrip(Tail(s))

RECURSIVE rstrip(_)
rstrip(s) ==
  IF s = <<>> \/ s[Len(s)] \notin Whitespace THEN s
  ELSE rstrip(SubSeq(s, 1, Len(s) - 1))

strip(s) == rstrip(lstrip(s))

startswith(s, p) == Len(s) >= Len(p) /\ SubSeq(s, 1, Len(p)) = p

\* `p in s` for strings: p is a substring of s
contains(s, p) ==
  \E i \in 1..(Len(s) - Len(p) + 1) : SubSeq(s, i, i + Len(p) - 1) = p

\* s.replace(old, new): non-overlapping occurrences, left to right
RECURSIVE replace(_, _, _)
replace(s, old, new) ==
  IF s = <<>> THEN <<>>
  ELSE IF startswith(s, old)
       THEN new \o replace(SubSeq(s, Len(old) + 1, Len(s)), old, new)
       ELSE <<Head(s)>> \o replace(Tail(s), old, new)

\* s.split(sep) for a one-character separator: always at least one piece
RECURSIVE split(_, _)
split(s, sep) ==
  IF \A i \in 1..Len(s) : s[i] # sep THEN <<s>>
  ELSE LET k == CHOOSE i \in 1..Len(s) : s[i] = sep /\ \A j \in 1..(i - 1) : s[j] # sep
       IN <<SubSeq(s, 1, k - 1)>> \o split(SubSeq(s, k + 1, Len(s)), sep)

\* sep.join(parts)
RECURSIVE join(_, _)
join(parts, sep) ==
  IF parts = <<>> THEN <<>>
  ELSE IF Len(parts) = 1 THEN parts[1]
  ELSE parts[1] \o sep \o join(Tail(parts), sep)

\* The length of the longest prefix of s made of characters of set cs
RECURSIVE runLength(_, _)
runLength(s, cs) ==
  IF s = <<>> \/ Head(s) \notin cs THEN 0 ELSE 1 + runLength(Tail(s), cs)

\* re.sub of the pattern [cs]{least,} by rep: every maximal run of characters
\* of cs that is at least `least` long is replaced by rep
RECURSIVE subRuns(_, _, _, _)
subRuns(s, cs, least, rep) ==
  IF s = <<>> THEN <<>>
  ELSE LET n == runLength(s, cs)
       IN IF n >= least
          THEN rep \o subRuns(SubSeq(s, n + 1, Len(s)), cs, least, rep)
          ELSE <<Head(s)>> \o subRuns(Tail(s), cs, least, rep)

\* [f(x) for x in xs if keep(x)] without the map: the elements of xs in cs
RECURSIVE removeChars(_, _)
removeChars(s, cs) ==
  IF s = <<>> THEN <<>>
  ELSE IF Head(s) \in cs THEN removeChars(Tail(s), cs)
  ELSE <<Head(s)>> \o removeChars(Tail(s), cs)

---------------------------------------------------------------------------
(* utils/cleaning.py *)

\* html.unescape's pattern &(#[0-9]+;?|#[xX][0-9a-fA-F]+;?|[^\t\n\f <&#;]{1,32};?)
\* The characters that end an entity name:
NameEnders == {TAB, NL, "U+000C", SP, "<", "&", "#", ";"}

\* The entity names of html.entities.html5 that the modelled inputs can spell
\* (each token of an input is an entity body, so no other name occurs).
Html5Names ==
  { <<"a","m","p",";">>, <<"a","m","p">>,
    <<"q","u","o","t",";">>, <<"q","u","o","t">>,
    <<"n","b","s","p",";">>, <<"n","b","s","p">> }

html5(name) ==
  CASE name \in {<<"a","m","p",";">>, <<"a","m","p">>} -> <<"&">>
    [] name \in {<<"q","u","o","t",";">>, <<"q","u","o","t">>} -> <<QUOTE>>
    [] name \in {<<"n","b","s","p",";">>, <<"n","b","s","p">>} -> <<NON_BREAKING_SPACE>>

DigitSeq == <<"0", "1", "2", "3", "4", "5", "6", "7", "8", "9">>

\* int(ds) for a non-empty run of decimal digits
RECURSIVE decimal(_)
decimal(ds) ==
  IF ds = <<>> THEN 0
  ELSE 10 * decimal(SubSeq(ds, 1, Len(ds) - 1))
       + (CHOOSE v \in 0..9 : DigitSeq[v + 1] = ds[Len(ds)])

\* chr(num) for the code points of the modelled characters; any other code
\* point is written "U+...." (not produced by the modelled inputs, whose only
\* digit run is 10).
chr(num) ==
  CASE num = 9 -> TAB  [] num = 10 -> NL  [] num = 32 -> SP
    [] num = 34 -> QUOTE  [] num = 35 -> "#"  [] num = 38 -> "&"
    [] num = 48 -> "0"  [] num = 49 -> "1"  [] num = 59 -> ";"
    [] num = 160 -> NON_BREAKING_SPACE  [] num = 12288 -> FULL_WIDTH_SPACE
    [] OTHER -> "U+...."

\* html._replace_charref, numeric branch
numericCharref(num) ==
  IF num = 0 THEN <<"U+FFFD">>
  ELSE IF num = 13 THEN <<CR>>
  ELSE IF (55296 <= num /\ num <= 57343) \/ num > 1114111 THEN <<"U+FFFD">>
  ELSE IF num \in (1..8) \cup {11} \cup (14..31) \cup (127..159) THEN <<>>
  ELSE <<chr(num)>>

\* html._replace_charref, named branch: the name itself, else the longest
\* proper prefix of at least two characters that is a name, else unchanged
namedCharref(s) ==
  IF s \in Html5Names THEN html5(s)
  ELSE LET known == {x \in 2..(Len(s) - 1) : SubSeq(s, 1, x) \in Html5Names}
       IN IF known = {} THEN <<"&">> \o s
          ELSE LET x == CHOOSE y \in known : \A z \in known : z <= y
               IN html5(SubSeq(s, 1, x)) \o SubSeq(s, x + 1, Len(s))

replaceCharref(s) ==
  IF s[1] = "#"
  THEN numericCharref(decimal(SelectSeq(Tail(s), LAMBDA c : c \in Digits)))
  ELSE namedCharref(s)

\* The length of the text the pattern's group matches at the start of t (the
\* text after an "&"), 0 when it does not match.  The hexadecimal alternative
\* needs an x after the #, which no modelled input has.
charrefLength(t) ==
  IF t = <<>> THEN 0
  ELSE IF t[1] = "#"
  THEN LET d == runLength(Tail(t), Digits)
       IN IF d = 0 THEN 0
          ELSE IF Len(t) >= d + 2 /\ t[d + 2] = ";" THEN d + 2 ELSE d + 1
  ELSE LET r == runLength(t, {t[i] : i \in 1..Len(t)} \ NameEnders)
           n == IF r > 32 THEN 32 ELSE r
       IN IF n = 0 THEN 0
          ELSE IF Len(t) >= n + 1 /\ t[n + 1] = ";" THEN n + 1 ELSE n

\* html.unescape(text): one left-to-right pass, replacements are not rescanned
RECURSIVE unescape(_)
unescape(s) ==
  IF s = <<>> THEN <<>>
  ELSE IF Head(s) = "&" /\ charrefLength(Tail(s)) > 0
       THEN LET m == charrefLength(Tail(s))
            IN replaceCharref(SubSeq(s, 2, m + 1)) \o unescape(SubSeq(s, m + 2, Len(s)))
       ELSE <<Head(s)>> \o unescape(Tail(s))

_strip_html_entities(text) ==
  LET unescaped == replace(unescape(text), <<"&","n","b","s","p",";">>, <<SP>>)
  IN replace(unescaped, <<NON_BREAKING_SPACE>>, <<SP>>)

\* _RE_MULTI_SPACE = [ \t]{2,}
_standardize_spaces(text) ==
  LET normalized == replace(text, <<FULL_WIDTH_SPACE>>, <<SP>>)
  IN subRuns(normalized, {SP, TAB}, 2, <<SP>>)

\* _RE_QUOTES = ["]|[“”]
_remove_quotes(text) == removeChars(text, {QUOTE, "U+201C", "U+201D"})

\* _RE_MULTI_NEWLINE = \n{2,} then _RE_MULTI_NEWLINE_LONG = \n{4,}
_collapse_newlines(text) ==
  LET t == subRuns(text, {NL}, 2, <<NL, NL>>)
  IN subRuns(t, {NL}, 4, <<NL, NL, NL>>)

normalize_line(l) == rstrip(_standardize_spaces(_remove_quotes(_strip_html_entities(l))))

\* "\n".join(cleaned_lines), the text _collapse_newlines is applied to
rejoined(ls) == join([i \in 1..Len(ls) |-> normalize_line(ls[i])], <<NL>>)

normalize_lines(ls) == strip(_collapse_newlines(rejoined(ls)))

\* raw_text.replace("\r\n", "\n").replace("\r", "\n").split("\n")
raw_lines(raw_text) ==
  split(replace(replace(raw_text, <<CR, NL>>, <<NL>>), <<CR>>, <<NL>>), NL)

clean_text(raw_text) == normalize_lines(raw_lines(raw_text))

---------------------------------------------------------------------------
(* utils/header_detection.py *)

\* HEADER_PATTERN's prefix class [◆■□●★☆◇▼▶▶︎] (the last glyph adds U+FE0E)
Markers == {"U+25C6", "U+25A0", "U+25A1", "U+25CF", "U+2605", "U+2606",
            "U+25C7", "U+25BC", "U+25B6", "U+FE0E"}
\* [ and 【, ] and 】, : and ：
Openers == {"[", "U+3010"}
Closers == {"]", "U+3011"}
Colons == {":", "U+FF1A"}
\* PUNCTUATION_TRIMMER's class [\-‐−―・\s]
TrimChars == {"-", "U+2010", "U+2212", "U+2015", "U+30FB"} \cup Whitespace

\* len(stripped) > 50 is never a header
MaxHeaderLength == 50

\* The index of the first character of s in cs, Len(s) + 1 when there is none
firstIn(s, cs) == runLength(s, {s[i] : i \in 1..Len(s)} \ cs) + 1

\* s without its longest prefix of characters of cs
dropRun(s, cs) == SubSeq(s, runLength(s, cs) + 1, Len(s))

RECURSIVE rtrim(_, _)
rtrim(s, cs) ==
  IF s = <<>> \/ s[Len(s)] \notin cs THEN s ELSE rtrim(SubSeq(s, 1, Len(s) - 1), cs)

\* PUNCTUATION_TRIMMER.sub("", title.strip()): the leading and the trailing
\* run of trim characters are removed
_normalize_title(t) == rtrim(dropRun(strip(t), TrimChars), TrimChars)

\* re.fullmatch(r"\d+(\.\d+)?", header)
isNumber(h) ==
  LET d == runLength(h, Digits)
  IN /\ d >= 1
     /\ \/ d = Len(h)
        \/ /\ Len(h) >= d + 2
           /\ h[d + 1] = "."
           /\ runLength(SubSeq(h, d + 2, Len(h)), Digits) = Len(h) - d - 1

\* INLINE_SPLIT_PATTERN.match(s) = ([^：:]+)[：:]\s*(.+) at the start of s: the
\* header is everything before the first colon (at least one character) and
\* the body what follows the colon and the whitespace after it.  s is
\* stripped and has no line break, so the body is empty only if nothing
\* follows the colon.
inlineMatchAt(s, k) ==
  IF k >= 2 /\ k < Len(s)
  THEN [matched |-> TRUE, header |-> SubSeq(s, 1, k - 1),
        body |-> lstrip(SubSeq(s, k + 1, Len(s)))]
  ELSE [matched |-> FALSE, header |-> <<>>, body |-> <<>>]

inlineMatch(s) == inlineMatchAt(s, firstIn(s, Colons))

\* HEADER_PATTERN.match(s) =
\*   ^(prefix [markers]+)?\s*[\[【]?(core [^\]】]+)[\]】]?\s*[：:]*\s*(inline .+)?$
\* The greedy search settles the three choices before the core in this
\* order: the longest prefix first (k characters, 0: no prefix), then the
\* most whitespace (w), then the opening bracket taken (o = 1) before left
\* to the core (o = 0); the first choice <<k, w, o>> that leaves the core a
\* first character wins.  The core then runs to the first closing bracket or
\* to the end, and everything after it is optional, so no choice is revisited.
coreStart(c) == c[1] + c[2] + c[3] + 1

\* The choices <<k, w, o>> that leave the core a first character
coreChoices(s) ==
  {c \in (0..runLength(s, Markers)) \X (0..Len(s)) \X {0, 1} :
     /\ c[2] <= runLength(SubSeq(s, c[1] + 1, Len(s)), Whitespace)
     /\ c[3] = 1 => /\ c[1] + c[2] + 1 <= Len(s)
                    /\ s[c[1] + c[2] + 1] \in Openers
     /\ coreStart(c) <= Len(s)
     /\ s[coreStart(c)] \notin Closers}

\* Choice c is tried before choice d (or is d)
triedBefore(c, d) ==
  \/ c[1] > d[1]
  \/ c[1] = d[1] /\ c[2] > d[2]
  \/ c[1] = d[1] /\ c[2] = d[2] /\ c[3] >= d[3]

firstChoice(choices) == CHOOSE x \in choices : \A y \in choices : triedBefore(x, y)

\* The groups, given the text from the core on and the position e in it of
\* the first closing bracket (one past its end when there is none): after the
\* core come [\]】]?\s*[：:]*\s*(inline .+)?$
headerGroups(prefix, rest, e) ==
  [matched |-> TRUE, prefix |-> prefix, core |-> SubSeq(rest, 1, e - 1),
   inline |-> dropRun(dropRun(dropRun(SubSeq(rest, e + 1, Len(rest)), Whitespace),
                              Colons), Whitespace)]

headerMatchFrom(prefix, rest) == headerGroups(prefix, rest, firstIn(rest, Closers))

headerMatchAt(s, c) == headerMatchFrom(SubSeq(s, 1, c[1]), SubSeq(s, coreStart(c), Len(s)))

headerMatchAmong(s, choices) ==
  IF choices = {}
  THEN [matched |-> FALSE, prefix |-> <<>>, core |-> <<>>, inline |-> <<>>]
  ELSE headerMatchAt(s, firstChoice(choices))

headerMatch(s) == headerMatchAmong(s, coreChoices(s))

NotHeader == [is_header |-> FALSE, score |-> 0, header |-> <<>>, inline |-> <<>>]

\* The inline label-value rule, given the match and its normalized header.
\* Scores are in hundredths.
inlineVerdict(inline_match, header) ==
  IF isNumber(header) THEN NotHeader
  ELSE [is_header |-> TRUE, score |-> 90, header |-> header,
        inline |-> strip(inline_match.body)]

inlineRule(inline_match) == inlineVerdict(inline_match, _normalize_title(inline_match.header))

\* The trailing-colon fallback
colonRule(stripped) ==
  IF stripped # <<>> /\ stripped[Len(stripped)] \in Colons
  THEN [is_header |-> TRUE, score |-> 55,
        header |-> _normalize_title(SubSeq(stripped, 1, Len(stripped) - 1)),
        inline |-> <<>>]
  ELSE NotHeader

\* has_marker: a prefix, a bracket anywhere in the line, or an inline rest
hasMarker(stripped, match) ==
  \/ match.prefix # <<>>
  \/ \E i \in 1..Len(stripped) : stripped[i] \in Openers \cup Closers
  \/ match.inline # <<>>

\* base_score = 0.6 if prefix else 0.5, plus 0.1 with an inline rest
markerScore(match) ==
  (IF match.prefix # <<>> THEN 60 ELSE 50) + (IF match.inline # <<>> THEN 10 ELSE 0)

\* The bracket/marker rule, falling through to the trailing-colon fallback
markerVerdict(stripped, match) ==
  IF match.matched /\ hasMarker(stripped, match)
  THEN [is_header |-> TRUE, score |-> markerScore(match),
        header |-> _normalize_title(match.core), inline |-> strip(match.inline)]
  ELSE colonRule(stripped)

markerRule(stripped) == markerVerdict(stripped, headerMatch(stripped))

\* The rules in order, given the stripped line and its inline match
classify(stripped, inline_match) ==
  IF stripped = <<>> THEN NotHeader
  ELSE IF Len(stripped) > MaxHeaderLength THEN NotHeader
  ELSE IF inline_match.matched THEN inlineRule(inline_match)
  ELSE markerRule(stripped)

classifyStripped(stripped) == classify(stripped, inlineMatch(stripped))

_looks_like_header(l) == classifyStripped(strip(l))

\* The candidate of line idx, given the verdict r on it
candidate(idx, r) ==
  IF r.is_header
  THEN <<[index |-> idx, title |-> r.header, inline_content |-> r.inline,
          score |-> r.score]>>
  ELSE <<>>

\* identify_headers(lines): index is the 0-based line number
RECURSIVE identifyFrom(_, _)
identifyFrom(ls, idx) ==
  IF idx >= Len(ls) THEN <<>>
  ELSE candidate(idx, _looks_like_header(ls[idx + 1])) \o identifyFrom(ls, idx + 1)

identify_headers(ls) == identifyFrom(ls, 0)

\* CANONICAL_FIELDS, in the dict's iteration order:
\*   job_title: 職種 募集職種 ポジション タイトル
\*   company: 会社名 企業名 社名 運営
\*   salary: 給与 給料 報酬 年収 月給 時給
CANONICAL_FIELDS ==
  << [field |-> "job_title", synonyms |->
       << <<"U+8077", "U+7A2E">>,
          <<"U+52DF", "U+96C6", "U+8077", "U+7A2E">>,
          <<"U+30DD", "U+30B8", "U+30B7", "U+30E7", "U+30F3">>,
          <<"U+30BF", "U+30A4", "U+30C8", "U+30EB">> >>],
     [field |-> "company", synonyms |->
       << <<"U+4F1A", "U+793E", "U+540D">>,
          <<"U+4F01", "U+696D", "U+540D">>,
          <<"U+793E", "U+540D">>,
          <<"U+904B", "U+55B6">> >>],
     [field |-> "salary", synonyms |->
       << <<"U+7D66", "U+4E0E">>,
          <<"U+7D66", "U+6599">>,
          <<"U+5831", "U+916C">>,
          <<"U+5E74", "U+53CE">>,
          <<"U+6708", "U+7D66">>,
          <<"U+6642", "U+7D66">> >>] >>

\* The length of the longest common run of a from i and b from j inside the
\* ranges ending at ahi and bhi
RECURSIVE blockLength(_, _, _, _, _, _)
blockLength(a, b, i, j, ahi, bhi) ==
  IF i > ahi \/ j > bhi \/ a[i] # b[j] THEN 0
  ELSE 1 + blockLength(a, b, i + 1, j + 1, ahi, bhi)

\* Block x = <<i, j, k>> is longer than y, or as long and earlier in a, or
\* as long, at the same place in a and not later in b
betterBlock(x, y) ==
  \/ x[3] > y[3]
  \/ x[3] = y[3] /\ x[1] < y[1]
  \/ x[3] = y[3] /\ x[1] = y[1] /\ x[2] <= y[2]

\* difflib's SequenceMatcher.find_longest_match(alo, ahi, blo, bhi) on a and b,
\* here with 1-based inclusive positions: the longest block a[i..i+k-1] =
\* b[j..j+k-1] inside the ranges, of those the one starting earliest in a, of
\* those the one starting earliest in b; <<0, 0, 0>> when no character matches.
\* (No junk: isjunk is None and the texts are shorter than 200.)
find_longest_match(a, b, alo, ahi, blo, bhi) ==
  LET blocks == {<<p[1], p[2], blockLength(a, b, p[1], p[2], ahi, bhi)>> :
                   p \in {q \in (alo..ahi) \X (blo..bhi) : a[q[1]] = b[q[2]]}}
  IN IF blocks = {} THEN <<0, 0, 0>>
     ELSE CHOOSE x \in blocks : \A y \in blocks : betterBlock(x, y)

\* The total size of get_matching_blocks(): the longest match, then the same
\* to its left and to its right
RECURSIVE matches(_, _, _, _, _, _)
RECURSIVE matchesAround(_, _, _, _, _, _, _)
matches(a, b, alo, ahi, blo, bhi) ==
  IF alo > ahi \/ blo > bhi THEN 0
  ELSE matchesAround(a, b, alo, ahi, blo, bhi, find_longest_match(a, b, alo, ahi, blo, bhi))

matchesAround(a, b, alo, ahi, blo, bhi, m) ==
  IF m[3] = 0 THEN 0
  ELSE m[3] + matches(a, b, alo, m[1] - 1, blo, m[2] - 1)
            + matches(a, b, m[1] + m[3], ahi, m[2] + m[3], bhi)

\* _similarity(a, b) = SequenceMatcher(None, a, b).ratio() = 2.0 * matches /
\* (len(a) + len(b)), 1.0 for two empty texts; as the fraction <<num, den>>
_similarity(a, b) ==
  IF Len(a) + Len(b) = 0 THEN <<1, 1>>
  ELSE <<2 * matches(a, b, 1, Len(a), 1, Len(b)), Len(a) + Len(b)>>

\* x > y and x >= y for fractions with positive denominators
greater(x, y) == x[1] * y[2] > y[1] * x[2]
atLeast(x, y) == x[1] * y[2] >= y[1] * x[2]

\* The threshold 0.55 of find_best_field_match, in hundredths
MatchThreshold == 55

\* The (field, synonym) pairs in the order the two loops visit them
RECURSIVE fieldPairs(_)
fieldPairs(fields) ==
  IF fields = <<>> THEN <<>>
  ELSE [i \in 1..Len(fields[1].synonyms) |->
          [field |-> fields[1].field, synonym |-> fields[1].synonyms[i]]]
       \o fieldPairs(Tail(fields))

\* The comparison with >= for >: of two equal ratios the later pair wins
betterMatchOrEqual(sim, best_score) == atLeast(sim, best_score)

\* if sim > best_score: best_score = sim; best_field = field
betterMatch(sim, best_score) == greater(sim, best_score)

\* The loops of find_best_field_match from pair i on
RECURSIVE bestFrom(_, _, _, _, _)
bestFrom(t, pairs, i, best_field, best_score) ==
  IF i > Len(pairs) THEN [field |-> best_field, score |-> best_score]
  ELSE IF betterMatch(_similarity(t, pairs[i].synonym), best_score)
  THEN bestFrom(t, pairs, i + 1, pairs[i].field, _similarity(t, pairs[i].synonym))
  ELSE bestFrom(t, pairs, i + 1, best_field, best_score)

FieldPairs == fieldPairs(CANONICAL_FIELDS)

\* return best_field if best_score >= 0.55 else None
aboveThreshold(best) ==
  IF atLeast(best.score, <<MatchThreshold, 100>>) THEN best.field ELSE "None"

find_best_field_match(t) == aboveThreshold(bestFrom(t, FieldPairs, 1, "None", <<0, 1>>))

\* A dict as the sequence of its items in insertion order.
keys(d) == {d[i].title : i \in 1..Len(d)}

get(d, k) == d[CHOOSE i \in 1..Len(d) : d[i].title = k].body

\* d[k] = v: an existing key keeps its place
put(d, k, v) ==
  IF k \in keys(d)
  THEN [i \in 1..Len(d) |-> IF d[i].title = k THEN [title |-> k, body |-> v] ELSE d[i]]
  ELSE Append(d, [title |-> k, body |-> v])

\* The title of the section group_sections returns when no header is found
BodyTitle == <<"U+672C", "U+6587">>

\* [line.strip() for line in lines[start:end] if line.strip()], start and end
\* 0-based, end exclusive
RECURSIVE nonEmptyStripped(_, _, _)
nonEmptyStripped(ls, start, end) ==
  IF start >= end \/ start >= Len(ls) THEN <<>>
  ELSE (IF strip(ls[start + 1]) # <<>> THEN <<strip(ls[start + 1])>> ELSE <<>>)
       \o nonEmptyStripped(ls, start + 1, end)

\* end = headers[i + 1].index if i + 1 < len(headers) else len(lines)
sectionEnd(ls, hs, i) == IF i + 1 <= Len(hs) THEN hs[i + 1].index ELSE Len(ls)

\* if candidate.inline_content: body_lines.append(candidate.inline_content)
inlineLines(c) == IF c.inline_content # <<>> THEN <<c.inline_content>> ELSE <<>>

\* The body with start = candidate.index for candidate.index + 1: the header
\* line itself is taken into the body
sectionBodyFromHeader(ls, hs, i) ==
  strip(join(inlineLines(hs[i]) \o nonEmptyStripped(ls, hs[i].index, sectionEnd(ls, hs, i)),
             <<NL>>))

\* The body group_sections stores for candidate i of hs
sectionBody(ls, hs, i) ==
  strip(join(inlineLines(hs[i]) \o nonEmptyStripped(ls, hs[i].index + 1, sectionEnd(ls, hs, i)),
             <<NL>>))

\* The fallback body built like a header's body: blank lines dropped
fallbackBodyWithoutBlanks(ls) == strip(join(nonEmptyStripped(ls, 0, Len(ls)), <<NL>>))

\* The body of the single section of a text without headers
fallbackBody(ls) == strip(join(ls, <<NL>>))

RECURSIVE groupFrom(_, _, _, _)
groupFrom(ls, hs, i, acc) ==
  IF i > Len(hs) THEN acc
  ELSE groupFrom(ls, hs, i + 1, put(acc, hs[i].title, sectionBody(ls, hs, i)))

\* group_sections from the candidates on
groupUnder(ls, hs) ==
  IF hs = <<>> THEN <<[title |-> BodyTitle, body |-> fallbackBody(ls)]>>
  ELSE groupFrom(ls, hs, 1, <<>>)

group_sections(ls) == groupUnder(ls, identify_headers(ls))

---------------------------------------------------------------------------
(* parser.py *)

\* The keys of DEFAULT_SECTION_TEMPLATE, in order:
\*   キャッチコピー 勤務地 仕事内容 求めている人材 勤務時間 勤務時間詳細 勤務地所在地 交通アクセス 給与詳細 試用期間 待遇・福利厚生 社会保険 選考プロセス
TemplateKeys ==
  << <<"U+30AD", "U+30E3", "U+30C3", "U+30C1", "U+30B3", "U+30D4", "U+30FC">>,
     <<"U+52E4", "U+52D9", "U+5730">>,
     <<"U+4ED5", "U+4E8B", "U+5185", "U+5BB9">>,
     <<"U+6C42", "U+3081", "U+3066", "U+3044", "U+308B", "U+4EBA", "U+6750">>,
     <<"U+52E4", "U+52D9", "U+6642", "U+9593">>,
     <<"U+52E4", "U+52D9", "U+6642", "U+9593", "U+8A73", "U+7D30">>,
     <<"U+52E4", "U+52D9", "U+5730", "U+6240", "U+5728", "U+5730">>,
     <<"U+4EA4", "U+901A", "U+30A2", "U+30AF", "U+30BB", "U+30B9">>,
     <<"U+7D66", "U+4E0E", "U+8A73", "U+7D30">>,
     <<"U+8A66", "U+7528", "U+671F", "U+9593">>,
     <<"U+5F85", "U+9047", "U+30FB", "U+798F", "U+5229", "U+539A", "U+751F">>,
     <<"U+793E", "U+4F1A", "U+4FDD", "U+967A">>,
     <<"U+9078", "U+8003", "U+30D7", "U+30ED", "U+30BB", "U+30B9">> >>

DEFAULT_SECTION_TEMPLATE == [i \in 1..Len(TemplateKeys) |-> [title |-> TemplateKeys[i], body |-> <<>>]]

\* merged.setdefault(header, body): a template key keeps its default
mergeItemKeepingDefault(m, header, body) ==
  IF header \in keys(m) THEN m ELSE put(m, header, body)

\* merged[header] = body for every detected section
mergeItem(m, header, body) == put(m, header, body)

RECURSIVE mergeFrom(_, _, _)
mergeFrom(m, detected, i) ==
  IF i > Len(detected) THEN m
  ELSE mergeFrom(mergeItem(m, detected[i].title, detected[i].body), detected, i + 1)

_merge_sections(detected_sections) == mergeFrom(DEFAULT_SECTION_TEMPLATE, detected_sections, 1)

\* [line.strip() for line in lines if line.strip()]
non_empty_lines(ls) == nonEmptyStripped(ls, 0, Len(ls))

\* The n-th element of ls, "" when it has none
nth(ls, n) == IF Len(ls) >= n THEN ls[n] ELSE <<>>

\* body.split("\n")[0]
firstLine(body) == split(body, NL)[1]

\* The keywords of the salary scan: 給与 年収 月給 時給 日給 賞与
SalaryKeys == {<<"U+7D66", "U+4E0E">>, <<"U+5E74", "U+53CE">>, <<"U+6708", "U+7D66">>, <<"U+6642", "U+7D66">>, <<"U+65E5", "U+7D66">>, <<"U+8CDE", "U+4E0E">>}
\* The keywords of the company scan: 株式会社 有限会社 合同会社 Inc LLC Co.
CompanyKeys == {<<"U+682A", "U+5F0F", "U+4F1A", "U+793E">>, <<"U+6709", "U+9650", "U+4F1A", "U+793E">>, <<"U+5408", "U+540C", "U+4F1A", "U+793E">>, <<"I", "n", "c">>, <<"L", "L", "C">>, <<"C", "o", ".">>}

\* The first element of ls that contains one of ks, "" when there is none
RECURSIVE firstWith(_, _)
firstWith(ls, ks) ==
  IF ls = <<>> THEN <<>>
  ELSE IF \E k \in ks : contains(Head(ls), k) THEN Head(ls)
  ELSE firstWith(Tail(ls), ks)

\* The salary scan without its `if not salary` guard
salaryScanUnguarded(ls, sal) ==
  LET found == firstWith(non_empty_lines(ls), SalaryKeys)
  IN IF found # <<>> THEN found ELSE sal

\* if not salary: the first non-empty line with a salary keyword
salaryScan(ls, sal) == IF sal = <<>> THEN firstWith(non_empty_lines(ls), SalaryKeys) ELSE sal

\* if not company: the first non-empty line with a company suffix
companyScan(ls, comp) == IF comp = <<>> THEN firstWith(non_empty_lines(ls), CompanyKeys) ELSE comp

\* The first line of the first section body that is not blank, "" when none
RECURSIVE firstBodyLine(_)
firstBodyLine(secs) ==
  IF secs = <<>> THEN <<>>
  ELSE IF strip(Head(secs).body) # <<>> THEN firstLine(Head(secs).body)
  ELSE firstBodyLine(Tail(secs))

\* if not job_title or job_title.startswith(("【", "[")): the first section
\* body's first line, unchanged when every body is blank
titleFix(secs, jt) ==
  IF jt = <<>> \/ \E o \in Openers : startswith(jt, <<o>>)
  THEN IF \E i \in 1..Len(secs) : strip(secs[i].body) # <<>>
       THEN firstBodyLine(secs) ELSE jt
  ELSE jt

---------------------------------------------------------------------------
(* Inputs of the normaliser *)

\* The most tokens a raw text of NormalizeSpec is made of
MaxTokens == 4

\* Entity bodies, an ordinary character, whitespace of each kind, a quote and
\* a run of four line breaks.
Tokens ==
  { <<"&">>, <<"a","m","p",";">>, <<"q","u","o","t",";">>, <<"n","b","s","p",";">>,
    <<"#","1","0",";">>, <<"z">>, <<SP>>, <<TAB>>, <<FULL_WIDTH_SPACE>>, <<QUOTE>>,
    <<NL>>, <<CR, NL>>, <<NL, NL, NL, NL>> }

RECURSIVE TokenTexts(_)
TokenTexts(n) ==
  IF n = 0 THEN {<<>>}
  ELSE LET shorter == TokenTexts(n - 1)
       IN shorter \cup {p \o t : p \in shorter, t \in Tokens}

Unset == <<>>

NormalizeInit ==
  /\ pc = "normalize"
  /\ raw \in TokenTexts(MaxTokens)
  /\ cleaned = Unset /\ recleaned = Unset
  /\ lines = <<>> /\ headers = <<>> /\ sections = <<>> /\ si = 0
  /\ job_title = Unset /\ company = Unset /\ salary = Unset /\ merged = <<>>
  /\ line = Unset /\ verdict = NotHeader /\ title = Unset /\ field = "None"

\* cleaned = clean_text(raw)
NormalizeOnce ==
  /\ pc = "normalize"
  /\ cleaned' = clean_text(raw)
  /\ pc' = "renormalize"
  /\ UNCHANGED <<raw, recleaned, lines, headers, sections, si, job_title, company,
                 salary, merged, line, verdict, title, field>>

\* recleaned = clean_text(cleaned)
NormalizeAgain ==
  /\ pc = "renormalize"
  /\ recleaned' = clean_text(cleaned)
  /\ pc' = "normalized"
  /\ UNCHANGED <<raw, cleaned, lines, headers, sections, si, job_title, company,
                 salary, merged, line, verdict, title, field>>

NormalizeNext == NormalizeOnce \/ NormalizeAgain

NormalizeSpec == NormalizeInit /\ [][NormalizeNext]_vars

---------------------------------------------------------------------------
(* Inputs of the header classifier *)

\* The most tokens a line of HeaderSpec is made of
MaxLineTokens == 4

\* Digits, a dot, both colons, a letter, a space, a dash, brackets, a marker
\* and a filler one character short of the length limit.
LineTokens ==
  { <<"1">>, <<"0">>, <<".">>, <<":">>, <<"U+FF1A">>, <<"a">>, <<SP>>, <<"-">>,
    <<"[">>, <<"U+3011">>, <<"U+25C6">>, [i \in 1..(MaxHeaderLength - 1) |-> "a"] }

RECURSIVE LineTexts(_)
LineTexts(n) ==
  IF n = 0 THEN {<<>>}
  ELSE LET shorter == LineTexts(n - 1)
       IN shorter \cup {p \o t : p \in shorter, t \in LineTokens}

HeaderInit ==
  /\ pc = "classify"
  /\ line \in LineTexts(MaxLineTokens)
  /\ verdict = NotHeader
  /\ raw = Unset /\ cleaned = Unset /\ recleaned = Unset
  /\ lines = <<>> /\ headers = <<>> /\ sections = <<>> /\ si = 0
  /\ job_title = Unset /\ company = Unset /\ salary = Unset /\ merged = <<>>
  /\ title = Unset /\ field = "None"

\* verdict = _looks_like_header(line)
Classify ==
  /\ pc = "classify"
  /\ verdict' = _looks_like_header(line)
  /\ pc' = "classified"
  /\ UNCHANGED <<raw, cleaned, recleaned, lines, headers, sections, si, job_title,
                 company, salary, merged, line, title, field>>

HeaderNext == Classify

HeaderSpec == HeaderInit /\ [][HeaderNext]_vars

---------------------------------------------------------------------------
(* Inputs of the field matcher *)

\* The longest title of MatchSpec
MaxTitleLen == 4

\* Characters of the synonyms 職種, 社名, 給与 and one of no synonym
TitleChars == {"U+8077", "U+7A2E", "U+793E", "U+540D", "U+7D66", "U+4E0E", "z"}

RECURSIVE Titles(_)
Titles(n) ==
  IF n = 0 THEN {<<>>}
  ELSE LET shorter == Titles(n - 1)
       IN shorter \cup {Append(p, c) : p \in shorter, c \in TitleChars}

MatchInit ==
  /\ pc = "match"
  /\ title \in Titles(MaxTitleLen)
  /\ field = "None"
  /\ raw = Unset /\ cleaned = Unset /\ recleaned = Unset
  /\ lines = <<>> /\ headers = <<>> /\ sections = <<>> /\ si = 0
  /\ job_title = Unset /\ company = Unset /\ salary = Unset /\ merged = <<>>
  /\ line = Unset /\ verdict = NotHeader

\* field = find_best_field_match(title)
Match ==
  /\ pc = "match"
  /\ field' = find_best_field_match(title)
  /\ pc' = "matched"
  /\ UNCHANGED <<raw, cleaned, recleaned, lines, headers, sections, si, job_title,
                 company, salary, merged, line, verdict, title>>

MatchNext == Match

MatchSpec == MatchInit /\ [][MatchNext]_vars

---------------------------------------------------------------------------
(* parse_job *)

\* The most lines of a raw text of Spec
MaxLines == 4

SalaryHeader == <<"U+3010", "U+7D66", "U+4E0E", "U+3011">>
SalaryLine == <<"U+6708", "U+7D66", "4", "0", "U+4E07", "U+5186", "U+301C", "U+FF0B", "U+696D", "U+7E3E", "U+8CDE", "U+4E0E">>
PlaceLine == <<"U+52E4", "U+52D9", "U+5730", "U+FF1A", "U+6771", "U+4EAC", "U+90FD", "U+5343", "U+4EE3", "U+7530", "U+533A">>
PlaceHeader == <<"U+3010", "U+52E4", "U+52D9", "U+5730", "U+3011">>
CompanyLine == <<"U+682A", "U+5F0F", "U+4F1A", "U+793E", "z">>
TitleLine == <<"U+8077", "U+7A2E", "U+FF1A", "z">>

\* 【給与】, 月給40万円〜＋業績賞与, 勤務地：東京都千代田区, 【勤務地】, 株式会社z,
\* 職種：z and the empty line
SampleLines == {<<>>, SalaryHeader, SalaryLine, PlaceLine, PlaceHeader, CompanyLine, TitleLine}

RECURSIVE LineSeqs(_)
LineSeqs(n) ==
  IF n = 0 THEN {<<>>}
  ELSE LET shorter == LineSeqs(n - 1)
       IN shorter \cup {Append(p, l) : p \in shorter, l \in SampleLines}

Init ==
  /\ pc = "clean"
  /\ raw \in {join(ls, <<NL>>) : ls \in LineSeqs(MaxLines)}
  /\ cleaned = Unset /\ recleaned = Unset
  /\ lines = <<>> /\ headers = <<>> /\ sections = <<>> /\ si = 0
  /\ job_title = Unset /\ company = Unset /\ salary = Unset /\ merged = <<>>
  /\ line = Unset /\ verdict = NotHeader /\ title = Unset /\ field = "None"

\* parse_job: cleaned = clean_text(raw_text); lines = cleaned.split("\n")
Clean ==
  /\ pc = "clean"
  /\ cleaned' = clean_text(raw)
  /\ lines' = split(cleaned', NL)
  /\ pc' = "group"
  /\ UNCHANGED <<raw, recleaned, headers, sections, si, job_title, company, salary,
                 merged, line, verdict, title, field>>

\* parse_job: detected_sections = group_sections(lines); headers keeps the
\* candidates group_sections works from
Group ==
  /\ pc = "group"
  /\ headers' = identify_headers(lines)
  /\ sections' = groupUnder(lines, headers')
  /\ pc' = "seed"
  /\ UNCHANGED <<raw, cleaned, recleaned, lines, si, job_title, company, salary,
                 merged, line, verdict, title, field>>

\* _guess_primary_fields: the first two non-empty lines seed job_title and company
Seed ==
  /\ pc = "seed"
  /\ job_title' = nth(non_empty_lines(lines), 1)
  /\ company' = nth(non_empty_lines(lines), 2)
  /\ salary' = <<>>
  /\ si' = 1
  /\ pc' = "sections"
  /\ UNCHANGED <<raw, cleaned, recleaned, lines, headers, sections, merged, line,
                 verdict, title, field>>

\* _guess_primary_fields: one turn of the loop over sections.items()
SectionStep ==
  /\ pc = "sections"
  /\ field' = find_best_field_match(sections[si].title)
  /\ job_title' = IF field' = "job_title" /\ sections[si].body # <<>>
                  THEN firstLine(sections[si].body) ELSE job_title
  /\ company' = IF field' = "company" /\ sections[si].body # <<>>
                THEN firstLine(sections[si].body) ELSE company
  /\ salary' = IF field' = "salary" /\ sections[si].body # <<>>
               THEN sections[si].body ELSE salary
  /\ IF si < Len(sections)
     THEN si' = si + 1 /\ pc' = "sections"
     ELSE si' = si /\ pc' = "salary_scan"
  /\ UNCHANGED <<raw, cleaned, recleaned, lines, headers, sections, merged, line,
                 verdict, title>>

\* _guess_primary_fields: the salary keyword scan
SalaryScan ==
  /\ pc = "salary_scan"
  /\ salary' = salaryScan(lines, salary)
  /\ pc' = "company_scan"
  /\ UNCHANGED <<raw, cleaned, recleaned, lines, headers, sections, si, job_title,
                 company, merged, line, verdict, title, field>>

\* _guess_primary_fields: the company suffix scan
CompanyScan ==
  /\ pc = "company_scan"
  /\ company' = companyScan(lines, company)
  /\ pc' = "title_fix"
  /\ UNCHANGED <<raw, cleaned, recleaned, lines, headers, sections, si, job_title,
                 salary, merged, line, verdict, title, field>>

\* _guess_primary_fields: a missing or bracketed job_title is replaced
TitleFix ==
  /\ pc = "title_fix"
  /\ job_title' = titleFix(sections, job_title)
  /\ pc' = "merge"
  /\ UNCHANGED <<raw, cleaned, recleaned, lines, headers, sections, si, company,
                 salary, merged, line, verdict, title, field>>

\* parse_job: sections = _merge_sections(detected_sections), and the record
\* is returned
Merge ==
  /\ pc = "merge"
  /\ merged' = _merge_sections(sections)
  /\ pc' = "done"
  /\ UNCHANGED <<raw, cleaned, recleaned, lines, headers, sections, si, job_title,
                 company, salary, line, verdict, title, field>>

Next ==
  \/ Clean
  \/ Group
  \/ Seed
  \/ SectionStep
  \/ SalaryScan
  \/ CompanyScan
  \/ TitleFix
  \/ Merge

Spec == Init /\ [][Next]_vars

---------------------------------------------------------------------------
(* Properties *)

Grouped == pc \notin {"clean", "group"}

\* The 1-based numbers of the lines that are header candidates
HeaderLines == {headers[i].index + 1 : i \in 1..Len(headers)}

\* The lines of a stored body that come from the lines under its header: the
\* body's lines, without the inline content of the header that produced it
\* (the last header of that title)
FollowingLines(sec) ==
  LET body_lines == split(sec.body, NL)
      producers == {i \in 1..Len(headers) : headers[i].title = sec.title}
  IN IF producers = {} THEN body_lines
     ELSE LET h == headers[CHOOSE i \in producers : \A j \in producers : j <= i]
          IN IF h.inline_content # <<>> THEN Tail(body_lines) ELSE body_lines

\* How often text t is a line under a header in the stored bodies
TimesStored(t) ==
  Cardinality({x \in (1..Len(sections)) \X (1..(Len(cleaned) + 1)) :
                 /\ x[2] <= Len(FollowingLines(sections[x[1]]))
                 /\ strip(FollowingLines(sections[x[1]])[x[2]]) = t})

\* How often text t is a line of the normalized text that is not a header
TimesWritten(t) ==
  Cardinality({i \in 1..Len(lines) : i \notin HeaderLines /\ strip(lines[i]) = t})

\* C1: after clean_text and group_sections every non-empty line of the
\* normalized text is either a header line or in the body of exactly one
\* section: its text is stored as often as it is written.
C1_Coverage ==
  Grouped =>
    \A i \in 1..Len(lines) :
      (strip(lines[i]) # <<>> /\ i \notin HeaderLines)
        => TimesStored(strip(lines[i])) = TimesWritten(strip(lines[i]))

\* C2: clean_text is idempotent: cleaning the cleaned text changes nothing.
C2_Idempotent == pc = "normalized" => recleaned = cleaned

\* The blank-line bounding the specification describes: a run of four or more
\* line breaks becomes three, a run of two or three becomes two
RECURSIVE boundRuns(_)
boundRuns(s) ==
  IF s = <<>> THEN <<>>
  ELSE LET n == runLength(s, {NL})
       IN IF n >= 4 THEN <<NL, NL, NL>> \o boundRuns(SubSeq(s, n + 1, Len(s)))
          ELSE IF n >= 2 THEN <<NL, NL>> \o boundRuns(SubSeq(s, n + 1, Len(s)))
          ELSE <<Head(s)>> \o boundRuns(Tail(s))

\* C10: in the output of clean_text a run of four or more line breaks of the
\* rejoined lines is capped to three and a shorter run of blank lines is
\* collapsed to two line breaks.
C10_BlankRunsBounded ==
  pc # "normalize" => cleaned = strip(boundRuns(rejoined(raw_lines(raw))))

\* A line that is only a number, a colon and whatever follows the colon
NumericLabelLine(l) ==
  LET s == strip(l)
      k == firstIn(s, Colons)
  IN k >= 2 /\ k <= Len(s) /\ isNumber(SubSeq(s, 1, k - 1))

\* C3: a line whose label before the first colon is purely numeric is never a
\* header candidate, whatever follows the colon.
C3_HeaderGuard ==
  (pc = "classified" /\ NumericLabelLine(line)) => ~verdict.is_header

\* The title 給与
SalaryTitle == <<"U+7D66", "U+4E0E">>

\* Line i is 【給与】 and line i + 1 is 月給40万円〜＋業績賞与
SalaryPair(i) ==
  i + 1 <= Len(lines) /\ lines[i] = SalaryHeader /\ lines[i + 1] = SalaryLine

\* C4 as claimed: whenever the salary header is followed by the salary line,
\* salary and sections[給与] are that line, whatever else the text holds.
C4_SalaryAnywhere ==
  (pc = "done" /\ \E i \in 1..Len(lines) : SalaryPair(i))
    => /\ salary = SalaryLine
       /\ SalaryTitle \in keys(merged)
       /\ get(merged, SalaryTitle) = SalaryLine

\* The salary pair at line i with nothing but blank lines up to the next
\* header, and no other header whose title resolves to salary
SalaryAlone(i) ==
  /\ SalaryPair(i)
  /\ \A j \in (i + 2)..Len(lines) :
       strip(lines[j]) # <<>> => \E k \in (i + 2)..j : k \in HeaderLines
  /\ \A h \in 1..Len(headers) :
       headers[h].index + 1 # i => find_best_field_match(headers[h].title) # "salary"

\* C4 as amended: when the salary line is the whole body of the 【給与】
\* section and no other header resolves to salary, salary and sections[給与]
\* are that line.
C4_SalaryAlone ==
  (pc = "done" /\ \E i \in 1..Len(lines) : SalaryAlone(i))
    => /\ salary = SalaryLine
       /\ SalaryTitle \in keys(merged)
       /\ get(merged, SalaryTitle) = SalaryLine

\* The parse ended on a text with the salary pair alone and another section
C4_Witness ==
  /\ pc = "done"
  /\ \E i \in 1..Len(lines) : SalaryAlone(i)
  /\ Len(sections) >= 2
  /\ salary = SalaryLine

\* C5: when no line of the normalized text is a header, group_sections
\* returns the single section 本文 whose body is the whole normalized text.
C5_ZeroHeaderFallback ==
  (Grouped /\ \A i \in 1..Len(lines) : ~_looks_like_header(lines[i]).is_header)
    => sections = <<[title |-> BodyTitle, body |-> cleaned]>>

\* A text of several lines, one of them blank, and no header has been grouped
C5_Witness ==
  /\ pc = "seed"
  /\ \A i \in 1..Len(lines) : ~_looks_like_header(lines[i]).is_header
  /\ \E i \in 1..Len(lines) : lines[i] = <<>>
  /\ Len(lines) >= 3
  /\ sections = <<[title |-> BodyTitle, body |-> cleaned]>>

\* A line <label><colon><body> of at most 50 characters with a label that is
\* not a number and no bracket
InlineForm(l) ==
  LET s == strip(l)
      k == firstIn(s, Colons)
  IN /\ Len(s) <= MaxHeaderLength
     /\ k >= 2 /\ k < Len(s)
     /\ \A i \in 1..Len(s) : s[i] \notin Openers \cup Closers
     /\ ~isNumber(_normalize_title(SubSeq(s, 1, k - 1)))

InlineLabel(l) == _normalize_title(SubSeq(strip(l), 1, firstIn(strip(l), Colons) - 1))

InlineBody(l) == strip(SubSeq(strip(l), firstIn(strip(l), Colons) + 1, Len(strip(l))))

\* C6: a line of the inline form yields a candidate of score 0.9 titled by
\* its normalized label with the body as inline content, and the grouped
\* result has a section of that title whose body starts with that content.
C6_InlineHeader ==
  Grouped =>
    \A i \in 1..Len(lines) :
      InlineForm(lines[i]) =>
        /\ \E h \in 1..Len(headers) :
             /\ headers[h].index = i - 1
             /\ headers[h].score = 90
             /\ headers[h].title = InlineLabel(lines[i])
             /\ headers[h].inline_content = InlineBody(lines[i])
        /\ InlineLabel(lines[i]) \in keys(sections)
        /\ startswith(get(sections, InlineLabel(lines[i])), InlineBody(lines[i]))

\* The similarity of the title to the synonym of every pair
PairRatios == [i \in 1..Len(FieldPairs) |-> _similarity(title, FieldPairs[i].synonym)]

\* The pairs of the highest ratio
BestPairs(ratios) ==
  {i \in 1..Len(FieldPairs) : \A j \in 1..Len(FieldPairs) : atLeast(ratios[i], ratios[j])}

\* C7: find_best_field_match returns the field of the highest ratio exactly
\* when that ratio is at least 0.55, and of two fields with the same highest
\* ratio the one evaluated first.
C7_ThresholdAndTieBreak ==
  pc = "matched" =>
    LET ratios == PairRatios
        best == BestPairs(ratios)
        first == CHOOSE i \in best : \A j \in best : i <= j
    IN IF atLeast(ratios[first], <<55, 100>>)
       THEN field = FieldPairs[first].field
       ELSE field = "None"

\* A title whose highest ratio, above the threshold, is reached by a synonym
\* of job_title and by one of company, has been matched to job_title
C7_Witness ==
  /\ pc = "matched"
  /\ field = "job_title"
  /\ LET best == BestPairs(PairRatios)
     IN /\ \E i \in best : FieldPairs[i].field = "job_title"
        /\ \E j \in best : FieldPairs[j].field = "company"

TemplateKeySet == {TemplateKeys[i] : i \in 1..Len(TemplateKeys)}

\* C8: the returned sections hold every template key; each detected title
\* maps to its detected body and each undetected template key to "".
C8_MergePrecedence ==
  pc = "done" =>
    /\ Cardinality(keys(merged)) = Len(merged)
    /\ TemplateKeySet \subseteq keys(merged)
    /\ \A i \in 1..Len(sections) :
         /\ sections[i].title \in keys(merged)
         /\ get(merged, sections[i].title) = sections[i].body
    /\ \A k \in TemplateKeySet \ keys(sections) : get(merged, k) = <<>>

\* A detected section with a body has overwritten a template key
C8_Witness ==
  /\ pc = "done"
  /\ \E i \in 1..Len(sections) :
       /\ sections[i].title \in TemplateKeySet
       /\ sections[i].body # <<>>
       /\ get(merged, sections[i].title) = sections[i].body
  /\ \E k \in TemplateKeySet \ keys(sections) : get(merged, k) = <<>>

\* C9 as claimed: no step of the inference replaces a value that is set.
C9_OnlyUnsetOverridden ==
  [][/\ job_title # <<>> => job_title' = job_title
     /\ company # <<>> => company' = company
     /\ salary # <<>> => salary' = salary]_vars

\* C9 as amended: the salary scan and the company scan only fill a value
\* that is unset and change no other field, and the last step replaces
\* job_title only when it is empty or starts with an opening bracket.
C9_ScansOnlyFill ==
  [][/\ pc = "salary_scan" =>
          /\ salary # <<>> => salary' = salary
          /\ job_title' = job_title /\ company' = company
     /\ pc = "company_scan" =>
          /\ company # <<>> => company' = company
          /\ job_title' = job_title /\ salary' = salary
     /\ pc = "title_fix" =>
          /\ (job_title # <<>> /\ \A o \in Openers : ~startswith(job_title, <<o>>))
               => job_title' = job_title
          /\ company' = company /\ salary' = salary]_vars

\* The salary scan has run on a salary a section had set, with a different
\* keyword line earlier in the text
C9_Witness ==
  /\ pc = "company_scan"
  /\ salary = SalaryLine
  /\ firstWith(non_empty_lines(lines), SalaryKeys) \notin {<<>>, salary}

=============================================================================
